---- MODULE Spec2Model ----
(***************************************************************************)
(* A model of stow.py: the planner (stow_node / unstow_node and their      *)
(* contents drivers), the task bookkeeping (do_link, do_unlink, do_mkdir,  *)
(* do_rmdir, do_mv), the folder (foldable / fold_tree), the ownership      *)
(* resolver (find_stowed_path) and the executor (process_tasks), run over  *)
(* a small filesystem with symbolic links.                                 *)
(*                                                                         *)
(* Paths are sequences of components.  A relative path is a sequence of    *)
(* names and ".." components; the path "." is the empty sequence; an       *)
(* absolute path starts with the component "" (as "/a/b".split("/") does). *)
(* The filesystem maps the absolute location of every existing node        *)
(* (a sequence of names from the root) to a node record.                   *)
(***************************************************************************)
EXTENDS Integers, Sequences, FiniteSets, TLC

VARIABLES
    fs,            \* the filesystem: location -> [kind, src]
    cfg,           \* the invocation's directories: [dir, target] (locations)
    cwd,           \* the process working directory (a location)
    phase,         \* position of run_with_args: "idle" before the first
                   \* invocation, then the call to make next, or "done",
                   \* or which call raised ("plan_raised", "exec_raised")
    opts,          \* parsed options of the run: [ignores, adopt]
    pkgs_to_unstow,
    pkgs_to_stow,
    stw,           \* the Stow object; stw.err is the exception raised
    fs0,           \* history: the filesystem when the current run started
    prev,          \* history: the previous run
    applied,       \* history: tasks the executor has applied in this run
    nargs          \* history: package arguments consumed so far

vars == <<fs, cfg, cwd, phase, opts, pkgs_to_unstow, pkgs_to_stow, stw,
          fs0, prev, applied, nargs>>

-----------------------------------------------------------------------------
(* Paths                                                                   *)

pardir == ".."

NoPath == <<"?">>

Last(s) == s[Len(s)]

\* the greatest member in place of the least
Min_greatest(S) == CHOOSE k \in S : \A j \in S : k >= j

Min(S) == CHOOSE k \in S : \A j \in S : k <= j

Front(s) == SubSeq(s, 1, Len(s) - 1)

IsPrefix(p, q) == Len(p) <= Len(q) /\ SubSeq(q, 1, Len(p)) = p

\* os.path.isabs
isabs(p) == p # <<>> /\ Head(p) = ""

\* os.path.join(a, b): an absolute b replaces a
join(a, b) == IF isabs(b) THEN b ELSE a \o b

\* os.path.normpath: collapses "x/.." lexically, keeps leading ".." of a
\* relative path, drops ".." at the root of an absolute one
RECURSIVE normpath_from(_, _)
normpath_from(done, rest) ==
    IF rest = <<>> THEN done
    ELSE LET c == Head(rest)
             r == Tail(rest)
         IN  IF c = "." \/ (c = "" /\ done # <<>>) THEN normpath_from(done, r)
             ELSE IF c # pardir THEN normpath_from(Append(done, c), r)
             ELSE IF done = <<"">> THEN normpath_from(done, r)
             ELSE IF done # <<>> /\ Last(done) # pardir
                  THEN normpath_from(Front(done), r)
             ELSE normpath_from(Append(done, c), r)

normpath(p) == normpath_from(<<>>, p)

join_paths(a, b) == normpath(join(a, b))

\* "path".split(os.sep): the path "." splits into the one component "."
split(p) == IF p = <<>> THEN <<".">> ELSE p

-----------------------------------------------------------------------------
(* The filesystem                                                          *)

Dir == [kind |-> "dir", src |-> <<>>]

File == [kind |-> "file", src |-> <<>>]
\* the user's own file: a plain file whose content is not a package's (a
\* file's src stands for its content)
OwnFile == [kind |-> "file", src |-> <<"own">>]

Link(src) == [kind |-> "link", src |-> src]

Parent(loc) == IF loc = <<>> THEN <<>> ELSE Front(loc)

\* Path resolution from the location `cur`: every link on the way is
\* followed, the last component's only with `follow`.  NoPath when a
\* component is missing, a non-directory is traversed or links loop.
RECURSIVE Walk(_, _, _, _, _)
Walk(f, cur, rest, follow, fuel) ==
    IF rest = <<>> THEN cur
    ELSE IF f[cur].kind # "dir" THEN NoPath
    ELSE LET c == Head(rest)
             r == Tail(rest)
             n == Append(cur, c)
         IN  IF c = "" THEN Walk(f, <<>>, r, follow, fuel)
             ELSE IF c = "." THEN Walk(f, cur, r, follow, fuel)
             ELSE IF c = pardir THEN Walk(f, Parent(cur), r, follow, fuel)
             ELSE IF n \notin DOMAIN f THEN NoPath
             ELSE IF f[n].kind = "link" /\ (r # <<>> \/ follow)
                  THEN IF fuel = 0 THEN NoPath
                       ELSE Walk(f, cur, f[n].src \o r, follow, fuel - 1)
             ELSE Walk(f, n, r, follow, fuel)

Resolve(f, at, p, follow) == Walk(f, at, p, follow, Cardinality(DOMAIN f))

\* os.path.exists / isdir / islink / os.readlink / os.listdir at cwd `at`
exists(f, at, p) == Resolve(f, at, p, TRUE) # NoPath

isdir(f, at, p) ==
    LET n == Resolve(f, at, p, TRUE) IN n # NoPath /\ f[n].kind = "dir"

islink(f, at, p) ==
    LET n == Resolve(f, at, p, FALSE) IN n # NoPath /\ f[n].kind = "link"

readlink(f, at, p) == f[Resolve(f, at, p, FALSE)].src

Children(f, loc) ==
    {n \in DOMAIN f : n # <<>> /\ Parent(n) = loc}

\* os.path.realpath of an existing location-valued path
realpath(f, loc) == Resolve(f, <<>>, loc, TRUE)

\* os.path.relpath(a, b) for two locations
RECURSIVE relpath(_, _)
relpath(a, b) ==
    IF a # <<>> /\ b # <<>> /\ Head(a) = Head(b) THEN relpath(Tail(a), Tail(b))
    ELSE [i \in 1..Len(b) |-> pardir] \o a

-----------------------------------------------------------------------------
(* Exceptions.  An exception is a record; NoErr stands for "none raised".  *)
(* The names internal_error, error and second_source are used by the code  *)
(* but defined nowhere, so reaching one of them raises NameError.          *)

Exc(type, text, path) == [type |-> type, text |-> text, path |-> path]

NoErr == Exc("none", "", <<>>)

NameError(name) == Exc("NameError", name, <<>>)

\* a raise that is passed over
Raise_passed(s, e) == s

Raise(s, e) == IF s.err = NoErr THEN [s EXCEPT !.err = e] ELSE s

-----------------------------------------------------------------------------
(* Tasks and the task index.  link_task_for and dir_task_for hold          *)
(* references to Task objects: here, positions in the task list.           *)

TaskLink(action, source, path) ==
    [action |-> action, type |-> "link", source |-> source, path |-> path,
     dest |-> <<>>]

TaskDir(action, path) ==
    [action |-> action, type |-> "dir", source |-> <<>>, path |-> path,
     dest |-> <<>>]

TaskMv(path, dest) ==
    [action |-> "move", type |-> "file", source |-> <<>>, path |-> path,
     dest |-> dest]

Put(m, k, v) == [x \in (DOMAIN m) \cup {k} |-> IF x = k THEN v ELSE m[x]]

Del(m, k) == [x \in (DOMAIN m) \ {k} |-> m[x]]

EmptyMap == [x \in {} |-> 0]

\* Stow.__init__: the planning state of a fresh Stow object
NewStow(f, c, o) ==
    [adopt |-> o.adopt,
     ignores |-> o.ignores,
     target |-> c.target,
     stow_path |-> relpath(realpath(f, c.dir), realpath(f, c.target)),
     link_task_for |-> EmptyMap,
     dir_task_for |-> EmptyMap,
     tasks |-> <<>>,
     conflicts |-> [stow |-> EmptyMap, unstow |-> EmptyMap],
     action_count |-> 0,
     conflict_count |-> 0,
     warnings |-> FALSE,
     err |-> NoErr]

link_task(s, p) == s.tasks[s.link_task_for[p]]

dir_task(s, p) == s.tasks[s.dir_task_for[p]]

AppendLinkTask(s, t) ==
    [s EXCEPT !.tasks = Append(@, t),
              !.link_task_for = Put(@, t.path, Len(s.tasks) + 1)]

AppendDirTask(s, t) ==
    [s EXCEPT !.tasks = Append(@, t),
              !.dir_task_for = Put(@, t.path, Len(s.tasks) + 1)]

\* a SkipLinkTask that only drops the task from the index
SkipLinkTask_unmarked(s, p) ==
    [s EXCEPT !.link_task_for = Del(@, p)]

\* a SkipLinkTask that leaves the task in the index
SkipLinkTask_indexed(s, p) ==
    [s EXCEPT !.tasks[s.link_task_for[p]].action = "skip"]

\* "self.link_task_for[p].action = 'skip'; del self.link_task_for[p]"
SkipLinkTask(s, p) ==
    [s EXCEPT !.tasks[s.link_task_for[p]].action = "skip",
              !.link_task_for = Del(@, p)]

\* warn(...)
Warn(s) == [s EXCEPT !.warnings = TRUE]

\* do_link with the arguments of Task swapped
do_link_swapped(s, oldfile, newfile) ==
    IF s.err # NoErr THEN s
    ELSE AppendLinkTask(s, TaskLink("create", newfile, oldfile))

do_link(s, oldfile, newfile) ==
    IF s.err # NoErr THEN s
    ELSE IF newfile \in DOMAIN s.dir_task_for
            /\ dir_task(s, newfile).action # "remove"
    THEN Raise(s, NameError("internal_error"))
    ELSE IF newfile \in DOMAIN s.link_task_for
    THEN LET task_ref == link_task(s, newfile)
         IN  IF task_ref.action = "create"
             THEN IF task_ref.source # oldfile
                  THEN Raise(s, NameError("internal_error"))
                  ELSE s
             ELSE IF task_ref.action = "remove"
             THEN IF task_ref.source = oldfile
                  THEN SkipLinkTask(s, newfile)
                  ELSE AppendLinkTask(s, TaskLink("create", oldfile, newfile))
             ELSE Raise(s, NameError("internal_error"))
    ELSE AppendLinkTask(s, TaskLink("create", oldfile, newfile))

\* a do_unlink that plans nothing
do_unlink_nothing(f, s, file) == s

do_unlink(f, s, file) ==
    IF s.err # NoErr THEN s
    ELSE IF file \in DOMAIN s.link_task_for
    THEN LET task_ref == link_task(s, file)
         IN  IF task_ref.action = "remove" THEN s
             ELSE IF task_ref.action = "create" THEN SkipLinkTask(s, file)
             ELSE Raise(s, NameError("internal_error"))
    ELSE IF file \in DOMAIN s.dir_task_for
            /\ dir_task(s, file).action = "create"
    THEN Raise(s, NameError("internal_error"))
    ELSE IF ~islink(f, s.target, file)
    THEN Raise(s, Exc("OSError", "readlink", file))
    ELSE AppendLinkTask(s,
             TaskLink("remove", readlink(f, s.target, file), file))

do_mv(s, src, dst) ==
    IF s.err # NoErr THEN s
    ELSE IF src \in DOMAIN s.link_task_for
    THEN Raise(s, NameError("internal_error"))
    ELSE IF src \in DOMAIN s.dir_task_for
    THEN Raise(s, Exc("KeyError", "link_task_for", src))
    ELSE [s EXCEPT !.tasks = Append(@, TaskMv(src, dst))]

do_mkdir(s, dir) ==
    IF s.err # NoErr THEN s
    ELSE IF dir \in DOMAIN s.link_task_for
            /\ link_task(s, dir).action # "remove"
    THEN Raise(s, NameError("internal_error"))
    ELSE IF dir \in DOMAIN s.dir_task_for
    THEN LET task_ref == dir_task(s, dir)
         IN  IF task_ref.action = "create" THEN s
             ELSE IF task_ref.action = "remove"
             \* "self.dir_task_for[dir].action == 'skip'" compares and
             \* assigns nothing: the task is dropped from the index only
             THEN [s EXCEPT !.dir_task_for = Del(@, dir)]
             ELSE Raise(s, NameError("internal_error"))
    ELSE AppendDirTask(s, TaskDir("create", dir))

do_rmdir(s, dir) ==
    IF s.err # NoErr THEN s
    ELSE IF dir \in DOMAIN s.link_task_for
    THEN Raise(s, NameError("internal_error"))
    ELSE IF dir \in DOMAIN s.dir_task_for
    THEN LET task_ref == dir_task(s, dir)
         IN  IF task_ref.action = "remove" THEN s
             ELSE IF task_ref.action = "create"
             \* "self.link_task_for[dir].action = 'skip'": dir has no link
             \* task here (checked above), so the lookup raises KeyError
             THEN Raise(s, Exc("KeyError", "link_task_for", dir))
             ELSE Raise(s, NameError("internal_error"))
    ELSE AppendDirTask(s, TaskDir("remove", dir))

-----------------------------------------------------------------------------
(* The conflict tracker                                                    *)

\* Stow.conflict: "if not self.conflicts[action][package]" looks the
\* package up in a dict that nothing else writes, which raises KeyError
\* for a package with no entry; with an entry the message is appended,
\* the count incremented and RuntimeError(message) raised.
conflict(s, action, package, message, path) ==
    IF s.err # NoErr THEN s
    ELSE IF package \notin DOMAIN s.conflicts[action]
    THEN Raise(s, Exc("KeyError", package, <<>>))
    ELSE Raise([s EXCEPT !.conflicts[action][package] =
                             Append(@, Exc("conflict", message, path)),
                         !.conflict_count = @ + 1],
               Exc("RuntimeError", message, path))

-----------------------------------------------------------------------------
(* The virtual view: the filesystem overlaid with the pending tasks.       *)
(* Every path is taken relative to the target directory, the working       *)
(* directory inside plan_stow and plan_unstow.                             *)

\* "self.link_task_for.get(prefix) == 'remove'" compares a Task object (or
\* None) with a string, which is never equal.
TaskEqualsStr(task, str) == FALSE

parent_link_scheduled_for_removal(s, path) ==
    \E i \in 1..Len(split(path)) :
        LET prefix == SubSeq(split(path), 1, i)
        IN  /\ prefix \in DOMAIN s.link_task_for
            /\ TaskEqualsStr(link_task(s, prefix), "remove")

is_a_link(f, s, path) ==
    IF path \in DOMAIN s.link_task_for /\ link_task(s, path).action = "remove"
    THEN FALSE
    ELSE IF path \in DOMAIN s.link_task_for
            /\ link_task(s, path).action = "create"
    THEN TRUE
    ELSE IF islink(f, s.target, path)
    THEN ~parent_link_scheduled_for_removal(s, path)
    ELSE FALSE

\* read_a_link: the source, or NoPath where the code raises RuntimeError
read_a_link(f, s, path) ==
    IF path \in DOMAIN s.link_task_for /\ link_task(s, path).action = "create"
    THEN link_task(s, path).source
    ELSE IF path \in DOMAIN s.link_task_for
            /\ link_task(s, path).action = "remove"
    THEN NoPath
    ELSE IF islink(f, s.target, path) THEN readlink(f, s.target, path)
    ELSE NoPath

is_a_dir(f, s, path) ==
    IF path \in DOMAIN s.link_task_for /\ link_task(s, path).action = "remove"
    THEN FALSE
    ELSE IF path \in DOMAIN s.link_task_for
            /\ link_task(s, path).action = "create"
    THEN TRUE
    ELSE IF parent_link_scheduled_for_removal(s, path) THEN FALSE
    ELSE isdir(f, s.target, path)

laction(s, path) ==
    IF path \in DOMAIN s.link_task_for THEN link_task(s, path).action ELSE ""

daction(s, path) ==
    IF path \in DOMAIN s.dir_task_for THEN dir_task(s, path).action ELSE ""

\* is_a_node raises RuntimeError on a link task and a directory task of
\* the same action at one path
is_a_node_raises(s, path) ==
    \/ laction(s, path) = "remove" /\ daction(s, path) = "remove"
    \/ laction(s, path) = "create" /\ daction(s, path) = "create"

is_a_node(f, s, path) ==
    IF laction(s, path) = "remove" THEN daction(s, path) = "create"
    ELSE IF laction(s, path) = "create" THEN TRUE
    ELSE IF daction(s, path) = "remove" THEN FALSE
    ELSE IF daction(s, path) = "create" THEN TRUE
    ELSE IF parent_link_scheduled_for_removal(s, path) THEN FALSE
    ELSE exists(f, s.target, path)

-----------------------------------------------------------------------------
(* The ownership resolver                                                  *)

MarkerFiles == {".stow", ".nonstow"}

marked_stow_dir(f, s, target) ==
    \E m \in MarkerFiles : exists(f, s.target, join(target, <<m>>))

should_skip_target_which_is_stow_dir(f, s, target) ==
    target = s.stow_path \/ marked_stow_dir(f, s, target)

\* len() of the path as a string: the components and their separators
RECURSIVE strlen(_)
strlen(p) ==
    IF p = <<>> THEN 1
    ELSE IF Len(p) = 1 THEN Len(Head(p))
    ELSE Len(Head(p)) + 1 + strlen(Tail(p))

\* "dir = os.path.join(dir, part)" over the first i components: an empty
\* component (the root of an absolute path) leaves no trace
ScanPrefix(pathparts, i) ==
    SelectSeq(SubSeq(pathparts, 1, i), LAMBDA c : c # "")

\* The triple (path, dir, package) find_stowed_path returns; `found` tells
\* a path from the empty string of the all-empty triple, `err` is the
\* exception raised instead of returning.
Owned(path, dir, package) ==
    [found |-> TRUE, path |-> path, dir |-> dir, package |-> package,
     err |-> NoErr]

Unowned ==
    [found |-> FALSE, path |-> <<>>, dir |-> <<>>, package |-> "",
     err |-> NoErr]

OwnedRaises(e) ==
    [found |-> FALSE, path |-> <<>>, dir |-> <<>>, package |-> "", err |-> e]

\* "while path and stow_path": path is the string, never empty, so the
\* loop pops both lists until stow_path is empty, and pops an empty
\* pathparts (IndexError) when the candidate is shorter.  The debug call
\* before the return evaluates os.path.join(*pathparts), a TypeError when
\* nothing is left after the package.
RECURSIVE StripCommonPrefix(_, _, _)
StripCommonPrefix(path, pathparts, stow_path) ==
    IF stow_path = <<>>
    THEN IF pathparts = <<>>
         THEN OwnedRaises(Exc("IndexError", "pop from empty list", path))
         ELSE IF Tail(pathparts) = <<>>
         THEN OwnedRaises(Exc("TypeError", "join() missing argument", path))
         ELSE Owned(path, <<>>, Head(pathparts))
    ELSE IF pathparts = <<>>
    THEN OwnedRaises(Exc("IndexError", "pop from empty list", path))
    ELSE IF Head(pathparts) # Head(stow_path) THEN Unowned
    ELSE StripCommonPrefix(path, Tail(pathparts), Tail(stow_path))

\* find_stowed_path after the marker scan found nothing: the prefix match
\* against self.stow_path
owned_by_stow_path(s, path, r) ==
    IF r.found THEN Owned(path, s.stow_path, r.package) ELSE r

\* find_stowed_path with path bound: the marker scan from the shallowest
\* prefix, then the prefix match
find_stowed_path_of(f, s, path, marked) ==
    IF marked # {}
    THEN IF Min(marked) = strlen(path)
         THEN OwnedRaises(NameError("internal_error"))
         ELSE IF Min(marked) + 1 > Len(split(path))
         THEN OwnedRaises(Exc("IndexError", "list index", path))
         ELSE Owned(path, ScanPrefix(split(path), Min(marked)),
                    split(path)[Min(marked) + 1])
    ELSE owned_by_stow_path(s, path,
             StripCommonPrefix(path, split(path), split(s.stow_path)))

MarkedPrefixes(f, s, path) ==
    {i \in 1..Len(split(path)) :
         marked_stow_dir(f, s, ScanPrefix(split(path), i))}

find_stowed_path(f, s, target, source) ==
    find_stowed_path_of(f, s, join_paths(join(target, <<pardir>>), source),
        MarkedPrefixes(f, s, join_paths(join(target, <<pardir>>), source)))

\* Stow.ignore: the ignore patterns are taken as the set of
\* target-relative paths they match
ignore(s, stow_path, package, target) == target \in s.ignores

-----------------------------------------------------------------------------
(* Directory listings.  os.listdir returns the names in the order of       *)
(* DirOrder.                                                               *)

DirOrder ==
    <<".nonstow", ".stow", "a", "b", "bin", "f", "old", "pkg", "pkg1", "pkg2",
      "pkg3", "s", "shared", "stow", "sub", "t", "tool", "w", "x", "y">>

Rank(name) == CHOOSE i \in 1..Len(DirOrder) : DirOrder[i] = name

RECURSIVE SortNames(_)
SortNames(names) ==
    IF names = {} THEN <<>>
    ELSE LET m == CHOOSE x \in names : \A y \in names : Rank(x) <= Rank(y)
         IN  <<m>> \o SortNames(names \ {m})

\* os.listdir(p) for a p that is a directory
listdir(f, at, p) ==
    SortNames({Last(n) : n \in Children(f, Resolve(f, at, p, TRUE))})

-----------------------------------------------------------------------------
(* The planner, install direction.  stow_node is split at the points where *)
(* the code binds a value it uses more than once: stow_node_link is the    *)
(* branch "if self.is_a_link(target)" with existing_source bound,          *)
(* stow_node_owned the rest of that branch with the triple bound.          *)

\* Stow.defers / Stow.overrides: class attributes, the empty list;
\* nothing sets them
defers == {}

overrides == {}

defer(path) == path \in defers

override(path) == path \in overrides

RuntimeError(text, path) == Exc("RuntimeError", text, path)

RECURSIVE stow_node(_, _, _, _, _, _)
RECURSIVE stow_node_link(_, _, _, _, _, _)
RECURSIVE stow_node_owned(_, _, _, _, _, _, _)
RECURSIVE stow_contents(_, _, _, _, _, _)
RECURSIVE stow_contents_loop(_, _, _, _, _, _, _)

stow_node(f, s, stow_path, package, target, source) ==
    IF s.err # NoErr THEN s
    \* Don't try to stow absolute symlinks
    ELSE IF islink(f, s.target, source)
    THEN IF read_a_link(f, s, source) = NoPath
         THEN Raise(s, RuntimeError("read_a_link() passed a path scheduled for removal", source))
         ELSE IF isabs(read_a_link(f, s, source))
         \* the message is built from second_source, a name never bound
         THEN Raise(s, NameError("second_source"))
         ELSE stow_node_link(f, s, stow_path, package, target, source)
    ELSE stow_node_link(f, s, stow_path, package, target, source)

\* stow_node from "Does the target already exist?"
stow_node_link(f, s, stow_path, package, target, source) ==
    IF is_a_link(f, s, target)
    THEN stow_node_owned(f, s, package, target, source,
             read_a_link(f, s, target),
             find_stowed_path(f, s, target, read_a_link(f, s, target)))
    ELSE IF is_a_node_raises(s, target)
    THEN Raise(s, RuntimeError("link and dir", target))
    ELSE IF is_a_node(f, s, target)
    THEN IF is_a_dir(f, s, target)
         THEN stow_contents(f, s, s.stow_path, package, target,
                            join(<<pardir>>, source))
         ELSE IF s.adopt
         THEN do_link(do_mv(s, target,
                            join_paths(join(stow_path, <<package>>), target)),
                      source, target)
         ELSE conflict(s, "stow", package,
                       "existing target is neither a link nor a dir", target)
    \* no_folding is the class attribute False: that branch never runs
    ELSE do_link(s, source, target)

\* stow_node from "Does it point to a node under any stow directory?",
\* o being what find_stowed_path returned (or raised)
stow_node_owned(f, s, package, target, source, existing_source, o) ==
    IF o.err # NoErr THEN Raise(s, o.err)
    ELSE IF ~o.found
    THEN conflict(s, "stow", package,
                  "existing target is not owned by stow", target)
    ELSE IF is_a_node_raises(s, o.path)
    THEN Raise(s, RuntimeError("link and dir", o.path))
    \* Does the existing target actually point to anything?
    ELSE IF is_a_node(f, s, o.path)
    THEN IF existing_source = source THEN s
         ELSE IF defer(target) THEN s
         ELSE IF override(target)
         THEN do_link(do_unlink(f, s, target), source, target)
         ELSE IF /\ is_a_dir(f, s, join_paths(join(target, <<pardir>>), source))
                 /\ is_a_dir(f, s, join_paths(join(target, <<pardir>>),
                                              existing_source))
         THEN \* unfold the tree at this point
              stow_contents(f,
                  stow_contents(f, do_mkdir(do_unlink(f, s, target), target),
                                o.dir, o.package, target,
                                join(<<pardir>>, existing_source)),
                  s.stow_path, package, target, join(<<pardir>>, source))
         ELSE conflict(s, "stow", package,
                       "existing target is stowed to a different package",
                       target)
    ELSE \* the existing link is invalid: replace it
         do_link(do_unlink(f, s, target), source, target)

stow_contents_loop(f, s, stow_path, package, target, source, nodes) ==
    IF s.err # NoErr \/ nodes = <<>> THEN s
    ELSE stow_contents_loop(f,
             IF ignore(s, stow_path, package, join_paths(target, <<Head(nodes)>>))
             THEN s
             ELSE stow_node(f, s, stow_path, package,
                            join_paths(target, <<Head(nodes)>>),
                            join_paths(source, <<Head(nodes)>>)),
             stow_path, package, target, source, Tail(nodes))

stow_contents(f, s, stow_path, package, target, source) ==
    IF s.err # NoErr THEN s
    ELSE IF should_skip_target_which_is_stow_dir(f, s, target) THEN Warn(s)
    ELSE IF ~isdir(f, s.target, normpath(join(join(stow_path, <<package>>), target)))
    THEN Raise(s, RuntimeError("called with non-directory path", target))
    ELSE IF is_a_node_raises(s, target)
    THEN Raise(s, RuntimeError("link and dir", target))
    ELSE IF ~is_a_node(f, s, target)
    THEN Raise(s, RuntimeError("called with non-directory target", target))
    ELSE stow_contents_loop(f, s, stow_path, package, target, source,
             listdir(f, s.target,
                     normpath(join(join(stow_path, <<package>>), target))))

\* Stow.package_path: the path, or NoPath where it raises RuntimeError
package_path(f, s, package) ==
    IF isdir(f, s.target, join_paths(s.stow_path, <<package>>))
    THEN join_paths(s.stow_path, <<package>>)
    ELSE NoPath

\* "self.action_count += 1", reached when the package's planning returned
CountAction(s) ==
    IF s.err # NoErr THEN s ELSE [s EXCEPT !.action_count = @ + 1]

\* the body of plan_stow's loop for one package
plan_stow_package(f, s, package) ==
    IF package_path(f, s, package) = NoPath
    THEN Raise(s, RuntimeError("The stow directory does not contain package",
                               <<package>>))
    ELSE CountAction(stow_contents(f, s, s.stow_path, package, <<>>,
                                   package_path(f, s, package)))

-----------------------------------------------------------------------------
(* The folder                                                              *)

\* The loop of foldable over the children of target: the common parent of
\* the live links' sources.  [ok, parent, err]: ok is FALSE where foldable
\* returns "" from inside the loop; parent is NoPath while still unset.
RECURSIVE foldable_loop(_, _, _, _, _)
foldable_loop(f, s, target, nodes, parent) ==
    IF nodes = <<>> THEN [ok |-> TRUE, parent |-> parent, err |-> NoErr]
    ELSE IF is_a_node_raises(s, join_paths(target, <<Head(nodes)>>))
    THEN [ok |-> FALSE, parent |-> parent,
          err |-> RuntimeError("link and dir", target)]
    \* Skip nodes scheduled for removal
    ELSE IF ~is_a_node(f, s, join_paths(target, <<Head(nodes)>>))
    THEN foldable_loop(f, s, target, Tail(nodes), parent)
    \* If it's not a link then we can't fold its parent
    ELSE IF ~is_a_link(f, s, join_paths(target, <<Head(nodes)>>))
    THEN [ok |-> FALSE, parent |-> parent, err |-> NoErr]
    ELSE IF parent = NoPath
    THEN foldable_loop(f, s, target, Tail(nodes),
             join_paths(read_a_link(f, s, join_paths(target, <<Head(nodes)>>)),
                        <<pardir>>))
    ELSE IF parent # join_paths(read_a_link(f, s,
                                    join_paths(target, <<Head(nodes)>>)),
                                <<pardir>>)
    THEN [ok |-> FALSE, parent |-> parent, err |-> NoErr]
    ELSE foldable_loop(f, s, target, Tail(nodes), parent)

\* path_owned_by_package: the package of the triple ("" for none), with
\* the exception find_stowed_path raised, if any
path_owned_by_package(f, s, target, source) ==
    find_stowed_path(f, s, target, source)

NotFoldable == [parent |-> NoPath, err |-> NoErr]

\* foldable after its loop
foldable_result(f, s, target, r) ==
    IF r.err # NoErr THEN [parent |-> NoPath, err |-> r.err]
    ELSE IF ~r.ok \/ r.parent = NoPath THEN NotFoldable
    \* assert(parent.startswith(os.pardir + os.sep))
    ELSE IF ~(Len(r.parent) >= 2 /\ Head(r.parent) = pardir)
    THEN [parent |-> NoPath, err |-> Exc("AssertionError", "", r.parent)]
    ELSE [parent |-> IF path_owned_by_package(f, s, target,
                                              Tail(r.parent)).package # ""
                     THEN Tail(r.parent) ELSE NoPath,
          err |-> path_owned_by_package(f, s, target, Tail(r.parent)).err]

\* foldable: [parent, err]; parent is NoPath where the code returns "".
\* no_folding is the class attribute False.
foldable(f, s, target) ==
    foldable_result(f, s, target,
        foldable_loop(f, s, target, listdir(f, s.target, target), NoPath))

RECURSIVE fold_tree_loop(_, _, _, _)
fold_tree_loop(f, s, target, nodes) ==
    IF s.err # NoErr \/ nodes = <<>> THEN s
    ELSE IF is_a_node_raises(s, join_paths(target, <<Head(nodes)>>))
    THEN Raise(s, RuntimeError("link and dir", target))
    ELSE IF ~is_a_node(f, s, join_paths(target, <<Head(nodes)>>))
    THEN fold_tree_loop(f, s, target, Tail(nodes))
    ELSE fold_tree_loop(f, do_unlink(f, s, join_paths(target, <<Head(nodes)>>)),
                        target, Tail(nodes))

fold_tree(f, s, target, source) ==
    do_link(do_rmdir(fold_tree_loop(f, s, target,
                                    listdir(f, s.target, target)),
                     target),
            source, target)

-----------------------------------------------------------------------------
(* The planner, removal direction.  unstow_node is split like stow_node:   *)
(* unstow_node_owned is the link branch with the triple bound, and         *)
(* unstow_node_fold the directory branch after unstow_contents returned.   *)

RECURSIVE unstow_node(_, _, _, _, _)
RECURSIVE unstow_node_any_link(_, _, _, _, _)
RECURSIVE unstow_contents(_, _, _, _, _)
RECURSIVE unstow_contents_loop(_, _, _, _, _, _)

\* unstow_node from "Does it point to a node under any stow directory?"
\* an unstow_node that quietly ignores the package's own links too
unstow_node_owned_ignores(f, s, package, target, path, o) ==
    IF o.err # NoErr THEN Raise(s, o.err) ELSE s

\* an unstow_node that unlinks whatever link stow owns
unstow_node_owned_unlinks(f, s, package, target, path, o) ==
    IF o.err # NoErr THEN Raise(s, o.err)
    ELSE IF ~o.found
    THEN conflict(s, "unstow", package,
                  "existing target is not owned by stow", target)
    ELSE do_unlink(f, s, target)

unstow_node_owned(f, s, package, target, path, o) ==
    IF o.err # NoErr THEN Raise(s, o.err)
    ELSE IF ~o.found
    THEN conflict(s, "unstow", package,
                  "existing target is not owned by stow", target)
    \* Does the existing target actually point to anything?
    ELSE IF exists(f, s.target, o.path)
    THEN \* links stowed to a different package are quietly ignored
         IF o.path = path THEN do_unlink(f, s, target) ELSE s
    ELSE do_unlink(f, s, target)

\* "parent = self.foldable(target); if parent: self.fold_tree(...)"
fold_if_foldable(f, s, target, parent) ==
    IF parent.err # NoErr THEN Raise(s, parent.err)
    ELSE IF parent.parent # NoPath THEN fold_tree(f, s, target, parent.parent)
    ELSE s

\* unstow_node after "self.unstow_contents(stow_path, package, target)"
unstow_node_fold(f, s, target) ==
    IF s.err # NoErr THEN s
    ELSE fold_if_foldable(f, s, target, foldable(f, s, target))

\* an unstow_node with no test for absolute links
unstow_node_any_link(f, s, stow_path, package, target) ==
    IF s.err # NoErr THEN s
    ELSE IF is_a_link(f, s, target)
    THEN unstow_node_owned(f, s, package, target,
             join_paths(join(stow_path, <<package>>), target),
             find_stowed_path(f, s, target, read_a_link(f, s, target)))
    ELSE IF exists(f, s.target, target)
    THEN IF isdir(f, s.target, target)
         THEN unstow_node_fold(f,
                  unstow_contents(f, s, stow_path, package, target), target)
         ELSE conflict(s, "unstow", package,
                       "existing target is neither a link nor a dir", target)
    ELSE s

unstow_node(f, s, stow_path, package, target) ==
    IF s.err # NoErr THEN s
    \* Does the target exist?
    ELSE IF is_a_link(f, s, target)
    THEN IF isabs(read_a_link(f, s, target)) THEN Warn(s)
         ELSE unstow_node_owned(f, s, package, target,
                  join_paths(join(stow_path, <<package>>), target),
                  find_stowed_path(f, s, target, read_a_link(f, s, target)))
    ELSE IF exists(f, s.target, target)
    THEN IF isdir(f, s.target, target)
         THEN unstow_node_fold(f,
                  unstow_contents(f, s, stow_path, package, target), target)
         ELSE conflict(s, "unstow", package,
                       "existing target is neither a link nor a dir", target)
    ELSE s

unstow_contents_loop(f, s, stow_path, package, target, nodes) ==
    IF s.err # NoErr \/ nodes = <<>> THEN s
    ELSE unstow_contents_loop(f,
             IF ignore(s, stow_path, package, join_paths(target, <<Head(nodes)>>))
             THEN s
             ELSE unstow_node(f, s, stow_path, package,
                              join_paths(target, <<Head(nodes)>>)),
             stow_path, package, target, Tail(nodes))

unstow_contents(f, s, stow_path, package, target) ==
    IF s.err # NoErr THEN s
    ELSE IF should_skip_target_which_is_stow_dir(f, s, target) THEN Warn(s)
    \* error(...) is a name never bound
    ELSE IF ~isdir(f, s.target, join_paths(join(stow_path, <<package>>), target))
    THEN Raise(s, NameError("error"))
    ELSE IF is_a_node_raises(s, target)
    THEN Raise(s, RuntimeError("link and dir", target))
    ELSE IF ~is_a_node(f, s, target) THEN Raise(s, NameError("error"))
    ELSE unstow_contents_loop(f, s, stow_path, package, target,
             listdir(f, s.target,
                     join_paths(join(stow_path, <<package>>), target)))

\* the body of plan_unstow's loop for one package
plan_unstow_package(f, s, package) ==
    CountAction(unstow_contents(f, s, s.stow_path, package, <<>>))

-----------------------------------------------------------------------------
(* The executor                                                            *)

\* "self.tasks = [x for x in self.tasks if x.action != 'skip']"
StripSkipped(tasks) == SelectSeq(tasks, LAMBDA x : x.action # "skip")

\* The location a task path names, when its parent directory exists
TaskLoc(f, at, p) ==
    IF p = <<>> THEN NoPath
    ELSE LET d == Resolve(f, at, Front(p), TRUE)
         IN  IF d = NoPath \/ f[d].kind # "dir" THEN NoPath
             ELSE Append(d, Last(p))

OSError(text, path) == Exc("OSError", text, path)

\* process_task: one primitive.  [fs, err]: the filesystem after it, or
\* the OSError the primitive raises.
process_task(f, at, task) ==
    LET loc == TaskLoc(f, at, task.path)
        Fail(text) == [fs |-> f, err |-> OSError(text, task.path)]
        Ok(g) == [fs |-> g, err |-> NoErr]
    IN  IF loc = NoPath THEN Fail("no such directory")
        ELSE IF task.action = "create" /\ task.type = "dir"
        THEN IF loc \in DOMAIN f THEN Fail("file exists")
             ELSE Ok(Put(f, loc, Dir))
        ELSE IF task.action = "create" /\ task.type = "link"
        THEN IF loc \in DOMAIN f THEN Fail("file exists")
             ELSE Ok(Put(f, loc, Link(task.source)))
        ELSE IF task.action = "remove" /\ task.type = "dir"
        THEN IF loc \notin DOMAIN f THEN Fail("no such file")
             ELSE IF f[loc].kind # "dir" THEN Fail("not a directory")
             ELSE IF Children(f, loc) # {} THEN Fail("directory not empty")
             ELSE Ok(Del(f, loc))
        ELSE IF task.action = "remove" /\ task.type = "link"
        THEN IF loc \notin DOMAIN f THEN Fail("no such file")
             ELSE IF f[loc].kind = "dir" THEN Fail("is a directory")
             ELSE Ok(Del(f, loc))
        ELSE \* move: os.rename(task.path, task.dest)
             LET dst == TaskLoc(f, at, task.dest)
             IN  IF loc \notin DOMAIN f THEN Fail("no such file")
                 ELSE IF dst = NoPath THEN Fail("no such directory")
                 ELSE IF f[loc].kind = "dir" THEN Fail("rename directory")
                 ELSE IF dst \in DOMAIN f /\ f[dst].kind = "dir"
                 THEN Fail("is a directory")
                 ELSE Ok(Put(Del(f, loc), dst, f[loc]))

\* process_tasks' loop over the stripped list: stops at the first OSError
\* with the earlier tasks applied.  [fs, err, applied]
RECURSIVE process_tasks_loop(_, _, _, _)
process_tasks_loop(f, at, tasks, done) ==
    IF tasks = <<>> THEN [fs |-> f, err |-> NoErr, applied |-> done]
    ELSE LET r == process_task(f, at, Head(tasks))
         IN  IF r.err # NoErr
             THEN [fs |-> f, err |-> r.err, applied |-> done]
             ELSE process_tasks_loop(r.fs, at, Tail(tasks),
                                     Append(done, Head(tasks)))

\* a process_tasks that does not enter the target directory
process_tasks_no_cd(f, s) ==
    process_tasks_loop(f, Front(s.target), StripSkipped(s.tasks), <<>>)

\* a process_tasks that applies the skipped tasks too
process_tasks_no_strip(f, s) ==
    process_tasks_loop(f, s.target, s.tasks, <<>>)

process_tasks(f, s) ==
    process_tasks_loop(f, s.target, StripSkipped(s.tasks), <<>>)

-----------------------------------------------------------------------------
(* Command lines                                                           *)

\* run_with_args' loop over the non-option arguments: a mode flag sets the
\* mode of the package names after it.  [stow, unstow]
RECURSIVE parse_rest(_, _, _, _)
parse_rest(rest, mode_stow, mode_unstow, lists) ==
    IF rest = <<>> THEN lists
    ELSE LET arg == Head(rest)
         IN  IF arg = "-S" THEN parse_rest(Tail(rest), TRUE, FALSE, lists)
             ELSE IF arg = "-D" THEN parse_rest(Tail(rest), FALSE, TRUE, lists)
             ELSE IF arg = "-R" THEN parse_rest(Tail(rest), TRUE, TRUE, lists)
             ELSE parse_rest(Tail(rest), mode_stow, mode_unstow,
                      [stow |-> IF mode_stow THEN Append(lists.stow, arg)
                                ELSE lists.stow,
                       unstow |-> IF mode_unstow THEN Append(lists.unstow, arg)
                                  ELSE lists.unstow])

parse(rest) == parse_rest(rest, TRUE, FALSE, [stow |-> <<>>, unstow |-> <<>>])

\* plan_unstow / plan_stow: the loop over the packages, left at the first
\* exception
RECURSIVE plan_unstow(_, _, _)
plan_unstow(f, s, packages) ==
    IF s.err # NoErr \/ packages = <<>> THEN s
    ELSE plan_unstow(f, plan_unstow_package(f, s, Head(packages)),
                     Tail(packages))

RECURSIVE plan_stow(_, _, _)
plan_stow(f, s, packages) ==
    IF s.err # NoErr \/ packages = <<>> THEN s
    ELSE plan_stow(f, plan_stow_package(f, s, Head(packages)),
                   Tail(packages))

-----------------------------------------------------------------------------
(* Bounds                                                                  *)

\* package names given on the command lines of one behaviour, in total
MaxArgs == 3

-----------------------------------------------------------------------------
(* Starting filesystems.  Everything lives under /w; the target is /w/t;   *)
(* the stow directory is /w/t/stow (the default: the target is the stow    *)
(* directory's parent) or /w/s (given with -d and -t).                     *)

Tgt == <<"w", "t">>

StowIn == <<"w", "t", "stow">>

StowOut == <<"w", "s">>

MkFs(entries) ==
    [loc \in {<<>>, <<"w">>, Tgt} \cup {e[1] : e \in entries} |->
        IF \E e \in entries : e[1] = loc
        THEN (CHOOSE e \in entries : e[1] = loc)[2]
        ELSE Dir]

\* a package tree under the stow directory sd
PkgSimple(sd) ==
    {<<sd, Dir>>, <<sd \o <<"pkg">>, Dir>>, <<sd \o <<"pkg", "bin">>, Dir>>,
     <<sd \o <<"pkg", "bin", "tool">>, File>>}

PkgShared(sd) ==
    {<<sd, Dir>>,
     <<sd \o <<"pkg1">>, Dir>>, <<sd \o <<"pkg1", "shared">>, Dir>>,
     <<sd \o <<"pkg1", "shared", "a">>, File>>,
     <<sd \o <<"pkg2">>, Dir>>, <<sd \o <<"pkg2", "shared">>, Dir>>,
     <<sd \o <<"pkg2", "shared", "b">>, File>>}

PkgClash(sd) ==
    {<<sd, Dir>>,
     <<sd \o <<"pkg1">>, Dir>>, <<sd \o <<"pkg1", "f">>, File>>,
     <<sd \o <<"pkg2">>, Dir>>, <<sd \o <<"pkg2", "f">>, File>>}

PkgX(sd) ==
    {<<sd, Dir>>, <<sd \o <<"pkg">>, Dir>>, <<sd \o <<"pkg", "x">>, File>>}

\* a third package in the shared directory
PkgThird(sd) ==
    {<<sd \o <<"pkg3">>, Dir>>, <<sd \o <<"pkg3", "shared">>, Dir>>,
     <<sd \o <<"pkg3", "shared", "f">>, File>>}

\* another stow directory, marked, in the target, with a marked directory
\* inside its package
MarkedStow ==
    {<<Tgt \o <<"stow">>, Dir>>, <<Tgt \o <<"stow", ".stow">>, File>>,
     <<Tgt \o <<"stow", "pkg">>, Dir>>,
     <<Tgt \o <<"stow", "pkg", "sub">>, Dir>>,
     <<Tgt \o <<"stow", "pkg", "sub", ".stow">>, File>>,
     <<Tgt \o <<"stow", "pkg", "sub", "tool">>, File>>}

World(entries, dir, pkgs, ignores, adopts) ==
    [fs |-> MkFs(entries), dir |-> dir, target |-> Tgt, pkgs |-> pkgs,
     ignores |-> ignores, adopts |-> adopts]

Worlds ==
    { \* simple.json: one package, empty target
      World(PkgSimple(StowIn), StowIn, {"pkg", "nopkg"},
            {{}, {<<"bin">>}}, {FALSE}),
      \* unfold.json: two packages sharing a directory
      World(PkgShared(StowIn), StowIn, {"pkg1", "pkg2"},
            {{}, {<<"shared", "b">>}}, {FALSE}),
      \* the same with the directory already in the target
      World(PkgShared(StowIn) \cup {<<Tgt \o <<"shared">>, Dir>>}, StowIn,
            {"pkg1", "pkg2"}, {{}}, {FALSE}),
      \* two packages supplying the same file
      World(PkgClash(StowIn), StowIn, {"pkg1", "pkg2"}, {{}}, {FALSE}),
      \* conflict.json: a plain file in the way
      World(PkgX(StowIn) \cup {<<Tgt \o <<"x">>, File>>}, StowIn, {"pkg"},
            {{}}, {FALSE, TRUE}),
      \* the user's own links in the way, stow directory beside the target
      World(PkgX(StowOut) \cup {<<Tgt \o <<"x">>, Link(<<pardir>>)>>},
            StowOut, {"pkg"}, {{}}, {FALSE}),
      World(PkgX(StowOut) \cup {<<Tgt \o <<"x">>, Link(<<"", "w">>)>>},
            StowOut, {"pkg"}, {{}}, {FALSE}),
      World(PkgX(StowOut) \cup {<<Tgt \o <<"x">>, Link(<<"y">>)>>,
                                <<Tgt \o <<"y">>, File>>},
            StowOut, {"pkg"}, {{}}, {FALSE}),
      \* abslink.json: an absolute link at a path of an installed package
      World(PkgX(StowIn) \cup {<<StowIn \o <<"pkg", "y">>, File>>,
                               <<Tgt \o <<"x">>, Link(<<"", "w">>)>>,
                               <<Tgt \o <<"y">>, Link(<<"stow", "pkg", "y">>)>>},
            StowIn, {"pkg"}, {{}}, {FALSE}),
      \* a plain file in the way, stow directory beside the target
      World(PkgX(StowOut) \cup {<<Tgt \o <<"x">>, OwnFile>>}, StowOut, {"pkg"},
            {{}}, {FALSE, TRUE}),
      \* a link left behind by a package that is gone
      World(PkgX(StowIn) \cup {<<Tgt \o <<"x">>, Link(<<"stow", "old", "x">>)>>},
            StowIn, {"pkg"}, {{}}, {FALSE}),
      \* a package node that is an absolute symlink, at the top of the package
      World({<<StowIn, Dir>>, <<StowIn \o <<"pkg">>, Dir>>,
             <<StowIn \o <<"pkg", "x">>, Link(<<"", "w">>)>>},
            StowIn, {"pkg"}, {{}}, {FALSE}),
      \* and in a directory of the package that the target has already
      World({<<StowIn, Dir>>, <<StowIn \o <<"pkg">>, Dir>>,
             <<StowIn \o <<"pkg", "sub">>, Dir>>,
             <<StowIn \o <<"pkg", "sub", "x">>, Link(<<"", "w">>)>>,
             <<Tgt \o <<"sub">>, Dir>>},
            StowIn, {"pkg"}, {{}}, {FALSE}),
      \* three packages sharing a directory
      World(PkgShared(StowIn) \cup PkgThird(StowIn), StowIn,
            {"pkg1", "pkg2", "pkg3"}, {{}}, {FALSE}),
      \* a link into the marked directory inside a marked stow directory
      World(PkgX(StowOut) \cup MarkedStow
                \cup {<<Tgt \o <<"x">>, Link(<<"stow", "pkg", "sub", "tool">>)>>},
            StowOut, {"pkg"}, {{}}, {FALSE}),
      \* a link to a marked stow directory itself
      World(PkgX(StowOut) \cup MarkedStow
                \cup {<<Tgt \o <<"x">>, Link(<<"stow">>)>>},
            StowOut, {"pkg"}, {{}}, {FALSE}) }

-----------------------------------------------------------------------------
(* The state machine: invocations of run_with_args, one after another      *)

Modes == {"-S", "-D", "-R"}

\* command lines "<mode> <package>" or "<mode> <package> <mode> <package>" ...
RECURSIVE ArgLists(_, _)
ArgLists(pkgs, n) ==
    IF n = 0 THEN {<<>>}
    ELSE LET shorter == ArgLists(pkgs, n - 1)
         IN  shorter \cup
             {a \o <<m, p>> : a \in {b \in shorter : Len(b) = 2 * (n - 1)},
                              m \in Modes, p \in pkgs}

NoRun == [rest |-> <<>>, ignores |-> {}, adopt |-> FALSE, fs0 |-> <<>>,
          err |-> NoErr, tasks |-> <<>>]

Init ==
    \E w \in Worlds :
        /\ fs = w.fs
        /\ cfg = [dir |-> w.dir, target |-> w.target, pkgs |-> w.pkgs,
                  ignores |-> w.ignores, adopts |-> w.adopts]
        /\ cwd = w.dir
        /\ phase = "idle"
        /\ opts = [rest |-> <<>>, ignores |-> {}, adopt |-> FALSE]
        /\ pkgs_to_unstow = <<>>
        /\ pkgs_to_stow = <<>>
        /\ stw = NewStow(w.fs, w, [ignores |-> {}, adopt |-> FALSE])
        /\ fs0 = w.fs
        /\ prev = NoRun
        /\ applied = <<>>
        /\ nargs = 0

\* run_with_args up to "stow = Stow(**vars(args))": the command line is
\* parsed and the Stow object built.  The process starts in the stow
\* directory.  The run before becomes history.
StartRun ==
    /\ phase \in {"idle", "done", "plan_raised", "exec_raised"}
    /\ \E rest \in ArgLists(cfg.pkgs, MaxArgs - nargs) \ {<<>>},
          ig \in cfg.ignores, ad \in cfg.adopts :
        /\ opts' = [rest |-> rest, ignores |-> ig, adopt |-> ad]
        /\ pkgs_to_stow' = parse(rest).stow
        /\ pkgs_to_unstow' = parse(rest).unstow
        /\ stw' = NewStow(fs, cfg, [ignores |-> ig, adopt |-> ad])
        /\ nargs' = nargs + Len(rest) \div 2
    /\ prev' = IF phase = "idle" THEN NoRun
               ELSE [rest |-> opts.rest, ignores |-> opts.ignores,
                     adopt |-> opts.adopt, fs0 |-> fs0, err |-> stw.err,
                     tasks |-> stw.tasks]
    /\ fs0' = fs
    /\ applied' = <<>>
    /\ cwd' = cfg.dir
    /\ phase' = "plan_unstow"
    /\ UNCHANGED <<fs, cfg>>

\* What run_with_args does with the exception a call raised (or with none):
\* an exception ends the run, and leaves the working directory where the
\* "with cd(self.target)" block had put it (cd restores it after the yield
\* only when the block returns)
\* a run that goes on to the next call whatever the last one raised
Outcome_goes_on(s, next, raised) ==
    /\ stw' = s
    /\ phase' = next
    /\ cwd' = cwd

Outcome(s, next, raised) ==
    /\ stw' = s
    /\ phase' = IF s.err = NoErr THEN next ELSE raised
    /\ cwd' = IF s.err = NoErr THEN cwd ELSE cfg.target

\* stow.plan_unstow(pkgs_to_unstow)
PlanUnstow ==
    /\ phase = "plan_unstow"
    /\ Outcome(plan_unstow(fs, stw, pkgs_to_unstow), "plan_stow", "plan_raised")
    /\ UNCHANGED <<fs, cfg, opts, pkgs_to_unstow, pkgs_to_stow, fs0, prev,
                   applied, nargs>>

\* a plan_stow that applies its tasks as soon as it has planned them
PlanStow_applying ==
    /\ phase = "plan_stow"
    /\ fs' = process_tasks(fs, plan_stow(fs, stw, pkgs_to_stow)).fs
    /\ Outcome(plan_stow(fs, stw, pkgs_to_stow), "process_tasks", "plan_raised")
    /\ UNCHANGED <<cfg, opts, pkgs_to_unstow, pkgs_to_stow, fs0, prev,
                   applied, nargs>>

\* stow.plan_stow(pkgs_to_stow)
PlanStow ==
    /\ phase = "plan_stow"
    /\ Outcome(plan_stow(fs, stw, pkgs_to_stow), "process_tasks", "plan_raised")
    /\ UNCHANGED <<fs, cfg, opts, pkgs_to_unstow, pkgs_to_stow, fs0, prev,
                   applied, nargs>>

Executed(r) ==
    /\ fs' = r.fs
    /\ applied' = r.applied
    /\ Outcome(Raise([stw EXCEPT !.tasks = StripSkipped(@)], r.err), "done",
               "exec_raised")

\* stow.process_tasks()
ProcessTasks ==
    /\ phase = "process_tasks"
    /\ Executed(process_tasks(fs, stw))
    /\ UNCHANGED <<cfg, opts, pkgs_to_unstow, pkgs_to_stow, fs0, prev, nargs>>

Next == StartRun \/ PlanUnstow \/ PlanStow \/ ProcessTasks

Spec == Init /\ [][Next]_vars

-----------------------------------------------------------------------------
(* Vocabulary of the properties                                            *)

\* The target tree without the stow directory's own subtree
TargetTree(f) ==
    [l \in {k \in DOMAIN f : IsPrefix(cfg.target, k) /\ ~IsPrefix(cfg.dir, k)}
        |-> f[l]]

EmptyTarget(f) == DOMAIN TargetTree(f) = {cfg.target}

\* run_with_args is past both planning calls
Planned == phase \in {"process_tasks", "done"}

Ended == phase \in {"done", "plan_raised", "exec_raised"}

Planning == phase \in {"plan_unstow", "plan_stow"}

\* The run before this one was the command line rest, under this run's
\* options, and returned normally
RanBefore(rest) ==
    /\ prev.rest = rest
    /\ prev.err = NoErr
    /\ prev.ignores = opts.ignores
    /\ prev.adopt = opts.adopt

\* The paths package P supplies in the tree f, relative to the package
PkgPaths(f, P) ==
    {SubSeq(l, Len(cfg.dir) + 2, Len(l)) :
        l \in {k \in DOMAIN f : /\ IsPrefix(cfg.dir \o <<P>>, k)
                                /\ k # cfg.dir \o <<P>>}}

\* Every live entry of the directory rel of the target is a link, there is
\* one at least, and their sources lie in one directory
AllLinksIntoOneDir(f, rel) ==
    LET r == foldable_loop(f, NewStow(f, cfg, opts), rel,
                           listdir(f, cfg.target, rel), NoPath)
    IN  r.ok /\ r.parent # NoPath

\* A tree of links and directories under the target
TreeOf(entries) ==
    [l \in {cfg.target} \cup {cfg.target \o e[1] : e \in entries} |->
        IF l = cfg.target THEN Dir
        ELSE (CHOOSE e \in entries : cfg.target \o e[1] = l)[2]]

\* What one install of package P plans on the tree this run started from
OnceFrom(P) == plan_stow(fs0, NewStow(fs0, cfg, opts), <<P>>)

-----------------------------------------------------------------------------
(* Properties                                                              *)

\* C1 -- Idempotence.  When installing P succeeded, installing P again in
\* a later run on the resulting tree succeeds with an empty skip-filtered
\* task list and leaves the tree as it was; and when one install of P
\* succeeds, naming P twice in one invocation succeeds too, and plans and
\* applies exactly what naming it once does.
C1_Idempotence ==
    \A P \in cfg.pkgs :
        /\ (RanBefore(<<"-S", P>>) /\ opts.rest = <<"-S", P>> /\ ~Planning)
           => /\ Planned
              /\ StripSkipped(stw.tasks) = <<>>
              /\ fs = fs0
        /\ (opts.rest = <<"-S", P, "-S", P>> /\ ~Planning
                /\ OnceFrom(P).err = NoErr)
           => /\ Planned
              /\ StripSkipped(stw.tasks) = StripSkipped(OnceFrom(P).tasks)
              /\ phase = "done" => fs = process_tasks(fs0, OnceFrom(P)).fs

\* Every path P supplies is, in the tree f, absent from the target or a
\* real directory there that removal would not fold
Restorable(f, P) ==
    \A rel \in PkgPaths(f, P) :
        (cfg.target \o rel) \in DOMAIN f
        => /\ f[cfg.target \o rel].kind = "dir"
           /\ ~AllLinksIntoOneDir(f, rel)

\* C2 as stated -- Inverse law: when installing P succeeded, removing P
\* next succeeds and leaves the target tree, without the stow directory's
\* subtree, equal to the tree before the install.
C2_InverseLaw ==
    \A P \in cfg.pkgs :
        (RanBefore(<<"-S", P>>) /\ opts.rest = <<"-D", P>> /\ Ended)
        => /\ phase = "done"
           /\ TargetTree(fs) = TargetTree(prev.fs0)

\* C2 -- Inverse law where the starting tree holds nothing at the paths P
\* supplies but real directories that are not made of links into one
\* directory: installing P and then removing P leaves the target tree,
\* without the stow directory's subtree, equal to the starting tree.
C2_InverseLawWhereRestorable ==
    \A P \in cfg.pkgs :
        (RanBefore(<<"-S", P>>) /\ opts.rest = <<"-D", P>> /\ Ended
            /\ Restorable(prev.fs0, P))
        => /\ phase = "done"
           /\ TargetTree(fs) = TargetTree(prev.fs0)

\* P was installed into a tree that had a real directory P populates, and
\* has been removed again
C2_Witness ==
    \E P \in cfg.pkgs :
        /\ RanBefore(<<"-S", P>>)
        /\ opts.rest = <<"-D", P>>
        /\ phase = "done"
        /\ applied # <<>>
        /\ Restorable(prev.fs0, P)
        /\ \E rel \in PkgPaths(prev.fs0, P) :
               (cfg.target \o rel) \in DOMAIN prev.fs0

\* pkg1 supplies shared/a and pkg2 supplies shared/b
SharedPackages ==
    /\ cfg.dir \o <<"pkg1", "shared", "a">> \in DOMAIN fs
    /\ cfg.dir \o <<"pkg2", "shared", "b">> \in DOMAIN fs
    /\ opts.ignores = {}

\* target/shared is a link to the directory of package A
FoldedInto(f, A) ==
    TargetTree(f) =
        TreeOf({<<<<"shared">>, Link(stw.stow_path \o <<A, "shared">>)>>})

Unfolded(f) ==
    TargetTree(f) =
        TreeOf({<<<<"shared">>, Dir>>,
                <<<<"shared", "a">>,
                  Link(<<pardir>> \o stw.stow_path \o <<"pkg1", "shared", "a">>)>>,
                <<<<"shared", "b">>,
                  Link(<<pardir>> \o stw.stow_path \o <<"pkg2", "shared", "b">>)>>})

\* C3 -- Scenario 2 (unfold).  With target/shared a link to
\* stow/pkg1/shared, on disk from an earlier run or pending in this run,
\* installing pkg2 succeeds and target/shared becomes a real directory
\* holding exactly a -> ../stow/pkg1/shared/a and b -> ../stow/pkg2/shared/b.
C3_Scenario2 ==
    /\ (SharedPackages /\ FoldedInto(fs0, "pkg1")
            /\ opts.rest = <<"-S", "pkg2">> /\ Ended)
       => (phase = "done" /\ Unfolded(fs))
    /\ (SharedPackages /\ EmptyTarget(fs0)
            /\ opts.rest = <<"-S", "pkg1", "-S", "pkg2">> /\ Ended)
       => (phase = "done" /\ Unfolded(fs))

\* C4 -- Fold and unfold are inverses.  From a target where shared is a
\* single link into package A, installing B, which populates shared, goes
\* through and makes shared a real directory, and removing B next makes
\* the target tree again what it was.
C4_FoldUnfoldInverse ==
    \A A, B \in cfg.pkgs :
        /\ (SharedPackages /\ A # B /\ FoldedInto(fs0, A)
                /\ opts.rest = <<"-S", B>> /\ Ended)
           => /\ phase = "done"
              /\ fs[cfg.target \o <<"shared">>] = Dir
        /\ (SharedPackages /\ A # B /\ FoldedInto(prev.fs0, A)
                /\ RanBefore(<<"-S", B>>) /\ opts.rest = <<"-D", B>> /\ Ended)
           => /\ phase = "done"
              /\ TargetTree(fs) = TargetTree(prev.fs0)

\* C5 -- Conflict correctness.  After A is installed, installing B, which
\* supplies a plain file at the path f that A supplies, ends planning with
\* the conflict error whose message names the path, records the conflict
\* under B, and leaves A's link on disk as it was.
C5_Conflict ==
    \A A, B \in cfg.pkgs :
        (/\ A # B
         /\ {cfg.dir \o <<A, "f">>, cfg.dir \o <<B, "f">>} \subseteq DOMAIN fs
         /\ fs[cfg.dir \o <<B, "f">>] = File
         /\ RanBefore(<<"-S", A>>)
         /\ opts.rest = <<"-S", B>>
         /\ Ended)
        => /\ phase = "plan_raised"
           /\ stw.err.type = "RuntimeError"
           /\ stw.err.path = <<"f">>
           /\ B \in DOMAIN stw.conflicts.stow
           /\ fs = fs0
           /\ fs[cfg.target \o <<"f">>] = Link(stw.stow_path \o <<A, "f">>)

\* C6 -- Ignore correctness.  No link task, create or remove, is ever in
\* the plan for a path the run's ignore predicate matches.
C6_IgnoredNeverPlanned ==
    \A i \in 1..Len(stw.tasks) :
        stw.tasks[i].type = "link" => stw.tasks[i].path \notin opts.ignores

\* Where the link at loc leads, read lexically
LeadsTo(f, loc) ==
    IF isabs(f[loc].src) THEN Tail(normpath(f[loc].src))
    ELSE normpath(Front(loc) \o f[loc].src)

\* C7 -- Ownership correctness.  find_stowed_path gives the configured
\* stow path and package A for every link an install of A has created,
\* and the empty triple, without raising, for every link of the target
\* that does not lead into the stow directory.
C7_Ownership ==
    /\ \A A \in cfg.pkgs :
           (opts.rest = <<"-S", A>> /\ phase = "done")
           => \A i \in 1..Len(applied) :
                  (applied[i].action = "create" /\ applied[i].type = "link")
                  => LET o == find_stowed_path(fs, NewStow(fs, cfg, opts),
                                  applied[i].path, applied[i].source)
                     IN  /\ o.err = NoErr
                         /\ o.found
                         /\ o.dir = stw.stow_path
                         /\ o.package = A
    /\ \A loc \in DOMAIN TargetTree(fs) :
           (fs[loc].kind = "link" /\ ~IsPrefix(cfg.dir, LeadsTo(fs, loc)))
           => find_stowed_path(fs, NewStow(fs, cfg, opts),
                               SubSeq(loc, Len(cfg.target) + 1, Len(loc)),
                               fs[loc].src) = Unowned

\* C8 -- Scenario 1.  With stow/pkg/bin/tool and an empty target,
\* installing pkg plans exactly one task, create-link bin -> stow/pkg/bin,
\* and a later removal of pkg plans exactly one task, remove-link bin, and
\* leaves the target empty.
Scenario1 ==
    /\ cfg.dir \o <<"pkg", "bin", "tool">> \in DOMAIN fs
    /\ opts.ignores = {}
    /\ ~Planning

C8_Scenario1 ==
    /\ (Scenario1 /\ EmptyTarget(fs0) /\ opts.rest = <<"-S", "pkg">>)
       => /\ Planned
          /\ stw.tasks =
                 <<TaskLink("create", <<"stow", "pkg", "bin">>, <<"bin">>)>>
          /\ phase = "done" =>
                 TargetTree(fs) =
                     Put(TargetTree(fs0), cfg.target \o <<"bin">>,
                         Link(<<"stow", "pkg", "bin">>))
    /\ (Scenario1 /\ EmptyTarget(prev.fs0) /\ RanBefore(<<"-S", "pkg">>)
            /\ opts.rest = <<"-D", "pkg">>)
       => /\ Planned
          /\ Len(stw.tasks) = 1
          /\ stw.tasks[1].action = "remove"
          /\ stw.tasks[1].type = "link"
          /\ stw.tasks[1].path = <<"bin">>
          /\ phase = "done" => EmptyTarget(fs)

\* pkg was installed into the empty target and has been removed again
C8_Witness ==
    /\ Scenario1
    /\ EmptyTarget(prev.fs0)
    /\ RanBefore(<<"-S", "pkg">>)
    /\ opts.rest = <<"-D", "pkg">>
    /\ phase = "done"
    /\ applied # <<>>

\* C9 -- No plan from a failed run is executed.  Once planning has raised
\* in a run, no task planned in that run is applied: the filesystem is the
\* one the run started from.
C9_FailedPlanNotExecuted ==
    (stw.err # NoErr /\ phase # "exec_raised")
    => (fs = fs0 /\ applied = <<>> /\ phase = "plan_raised")

\* planning raised after tasks were planned for an earlier package
C9_Witness ==
    /\ phase = "plan_raised"
    /\ StripSkipped(stw.tasks) # <<>>
    /\ stw.action_count > 0

\* The attributes of the Stow object other than the task list, the task
\* index and the conflict log (err and warnings are what the call raised
\* and printed, not attributes)
Settings(s) ==
    [adopt |-> s.adopt, ignores |-> s.ignores, target |-> s.target,
     stow_path |-> s.stow_path]

C11_CwdRestored == cwd = cfg.dir

\* The target-relative paths at which the tree f has an absolute link
AbsLinks(f) ==
    {SubSeq(l, Len(cfg.target) + 1, Len(l)) :
        l \in {k \in DOMAIN TargetTree(f) :
                  f[k].kind = "link" /\ isabs(f[k].src)}}

\* a removal of pkg on the tree where pkg's path x is an absolute link and
\* pkg's path y, listed after x, is pkg's own link
AbsLinkRemoval ==
    /\ AbsLinks(fs0) = {<<"x">>}
    /\ (cfg.target \o <<"y">>) \in DOMAIN fs0
    /\ fs0[cfg.target \o <<"y">>] = Link(stw.stow_path \o <<"pkg", "y">>)
    /\ opts.rest = <<"-D", "pkg">>

\* C12 -- Removal never unlinks an absolute link.  No run that only
\* removes packages plans a link task at a path that is an absolute link,
\* and such a link on the way raises nothing: removal warns and goes on to
\* the remaining children.
C12_AbsoluteLinksKept ==
    /\ pkgs_to_stow = <<>>
       => \A i \in 1..Len(stw.tasks) :
              stw.tasks[i].type = "link"
              => stw.tasks[i].path \notin AbsLinks(fs0)
    /\ (AbsLinkRemoval /\ ~Planning)
       => /\ Planned
          /\ stw.warnings
          /\ stw.conflicts = [stow |-> EmptyMap, unstow |-> EmptyMap]
          /\ stw.tasks = <<TaskLink("remove", stw.stow_path \o <<"pkg", "y">>,
                                    <<"y">>)>>
          /\ phase = "done"
             => /\ fs[cfg.target \o <<"x">>] = fs0[cfg.target \o <<"x">>]
                /\ (cfg.target \o <<"y">>) \notin DOMAIN fs

\* the removal has gone past the absolute link and unlinked y
C12_Witness ==
    /\ AbsLinkRemoval
    /\ phase = "done"
    /\ stw.warnings
    /\ applied # <<>>

\* an install of pkg that finds a plain file at the path x pkg supplies
PlainFileInTheWay ==
    /\ cfg.dir \o <<"pkg", "x">> \in DOMAIN fs0
    /\ cfg.target \o <<"x">> \in DOMAIN fs0
    /\ fs0[cfg.target \o <<"x">>].kind = "file"
    /\ opts.rest = <<"-S", "pkg">>
    /\ ~Planning

\* C13 -- Adopt.  With adopt mode on, an install that reaches a plain file
\* plans the move of the file to the package's path for it and then the
\* link back, and raises no conflict; with adopt mode off it raises the
\* conflict, recorded under the package, and plans neither task.
C13_Adopt ==
    /\ (PlainFileInTheWay /\ opts.adopt)
       => /\ Planned
          /\ stw.tasks =
                <<TaskMv(<<"x">>, stw.stow_path \o <<"pkg", "x">>),
                  TaskLink("create", stw.stow_path \o <<"pkg", "x">>, <<"x">>)>>
          /\ stw.conflicts = [stow |-> EmptyMap, unstow |-> EmptyMap]
    /\ (PlainFileInTheWay /\ ~opts.adopt)
       => /\ phase = "plan_raised"
          /\ stw.err.type = "RuntimeError"
          /\ "pkg" \in DOMAIN stw.conflicts.stow
          /\ stw.tasks = <<>>

\* The run before this one only installed, P among its packages, under
\* this run's options, and returned normally
InstalledBefore(P) ==
    /\ prev.err = NoErr
    /\ prev.ignores = opts.ignores
    /\ prev.adopt = opts.adopt
    /\ parse(prev.rest).unstow = <<>>
    /\ \E i \in 1..Len(parse(prev.rest).stow) : parse(prev.rest).stow[i] = P

\* No link of the target tree f leads into package P
NotInstalled(f, P) ==
    \A l \in DOMAIN TargetTree(f) :
        f[l].kind = "link" => ~IsPrefix(cfg.dir \o <<P>>, LeadsTo(f, l))

\* C14 -- Remove-then-install.  A run plans all its removals before any
\* install; -R P on a tree where P is installed ends without error and
\* leaves the target tree as it was; -R P on a tree where P is not
\* installed gives what a plain install of P (adopt mode off) gives.
C14_Restow ==
    /\ phase = "plan_unstow" => stw.tasks = <<>>
    /\ phase = "plan_stow" => stw.action_count = Len(pkgs_to_unstow)
    /\ \A P \in cfg.pkgs :
        /\ (InstalledBefore(P) /\ opts.rest = <<"-R", P>> /\ Ended)
           => /\ phase = "done"
              /\ TargetTree(fs) = TargetTree(fs0)
        /\ (NotInstalled(fs0, P) /\ opts.rest = <<"-R", P>> /\ Ended
                /\ ~opts.adopt /\ OnceFrom(P).err = NoErr)
           => /\ phase = "done"
              /\ fs = process_tasks(fs0, OnceFrom(P)).fs

\* The locations at which the trees f and g differ
Changed(f, g) ==
    {l \in DOMAIN f \cup DOMAIN g :
        l \notin DOMAIN f \/ l \notin DOMAIN g \/ f[l] # g[l]}

\* C15 as stated -- Side effects are confined to the target directory:
\* every location a run has changed lies under the target directory,
\* wherever the stow directory is.
C15_UnderTarget ==
    \A l \in Changed(fs0, fs) : IsPrefix(cfg.target, l)

\* C15 -- Side effects are confined to the target directory and, in adopt
\* mode, the package directories: every location a run has changed lies
\* under the target directory, but for the destination of an applied
\* move, which is the adopted file's path in its package, under the stow
\* directory.
C15_UnderTargetOrAdopted ==
    \A l \in Changed(fs0, fs) :
        \/ IsPrefix(cfg.target, l)
        \/ /\ opts.adopt
           /\ IsPrefix(cfg.dir, l)
           /\ \E i \in 1..Len(applied) :
                  /\ applied[i].action = "move"
                  /\ IsPrefix(cfg.target, cfg.target \o applied[i].path)
                  /\ l = normpath(cfg.target \o applied[i].dest)

\* a file has been adopted into a stow directory beside the target
C15_Witness ==
    /\ phase = "done"
    /\ ~IsPrefix(cfg.target, cfg.dir)
    /\ \E i \in 1..Len(applied) : applied[i].action = "move"
    /\ \E l \in Changed(fs0, fs) : IsPrefix(cfg.target, l)
    /\ \E l \in Changed(fs0, fs) : IsPrefix(cfg.dir, l)

\* The tasks of a list whose action is not skip, in the order of the list
RECURSIVE NotSkipped(_)
NotSkipped(tasks) ==
    IF tasks = <<>> THEN <<>>
    ELSE IF Head(tasks).action = "skip" THEN NotSkipped(Tail(tasks))
    ELSE <<Head(tasks)>> \o NotSkipped(Tail(tasks))

\* C16 -- Executor ordering.  A process_tasks that returns has applied
\* exactly the tasks of the plan whose action is not skip, once each, in
\* the order of the plan; one that raises has applied a proper prefix of
\* them.
C16_ExecutorOrder ==
    [][phase = "process_tasks"
       => /\ phase' = "done" => applied' = NotSkipped(stw.tasks)
          /\ phase' = "exec_raised"
             => /\ Len(applied') < Len(NotSkipped(stw.tasks))
                /\ applied' = SubSeq(NotSkipped(stw.tasks), 1, Len(applied'))]_vars

\* the unfold plan, whose first task was skipped, has been applied
C16_Witness ==
    /\ phase = "done"
    /\ opts.rest = <<"-S", "pkg1", "-S", "pkg2">>
    /\ Len(applied) = 3
    /\ applied[1] = TaskDir("create", <<"shared">>)
    /\ applied[2].path = <<"shared", "a">>
    /\ applied[3].path = <<"shared", "b">>

\* C17 -- The Executor's rmdir finds the directory empty: no run ends
\* with process_tasks raising on a remove-dir task because the directory
\* still has entries.
C17_RmdirFindsEmpty ==
    ~(phase = "exec_raised" /\ stw.err.text = "directory not empty")

\* The planner state is one a guarded insert may be applied to: planning
\* has not raised and the plan has not been handed to the Executor's strip
Insertable ==
    /\ phase \in {"plan_stow", "process_tasks"}
    /\ stw.err = NoErr

\* From planner state s to r, task number i has been cancelled: r is s
\* with that task marked skip and nothing appended, so that the Executor
\* applies what it would have applied but for that task
Cancelled(s, r, i) ==
    /\ r.err = NoErr
    /\ Len(r.tasks) = Len(s.tasks)
    /\ r.tasks[i] = [s.tasks[i] EXCEPT !.action = "skip"]
    /\ \A j \in 1..Len(s.tasks) : j # i => r.tasks[j] = s.tasks[j]
    /\ NotSkipped(r.tasks) =
          NotSkipped(SubSeq(s.tasks, 1, i - 1))
              \o NotSkipped(SubSeq(s.tasks, i + 1, Len(s.tasks)))

\* The paths with a pending link task of the given action
PendingLinks(action) ==
    {p \in DOMAIN stw.link_task_for : link_task(stw, p).action = action}

\* The paths with a pending directory task of the given action
PendingDirs(action) ==
    {p \in DOMAIN stw.dir_task_for : dir_task(stw, p).action = action}

\* do_unlink on a pending create-link cancels it
UnlinkCancels(p) ==
    /\ Cancelled(stw, do_unlink(fs, stw, p), stw.link_task_for[p])
    /\ do_unlink(fs, stw, p).link_task_for = Del(stw.link_task_for, p)
    /\ do_unlink(fs, stw, p).dir_task_for = stw.dir_task_for

\* do_link of the pending remove-link's own source cancels it
LinkCancels(p) ==
    /\ Cancelled(stw, do_link(stw, link_task(stw, p).source, p),
                 stw.link_task_for[p])
    /\ do_link(stw, link_task(stw, p).source, p).link_task_for =
          Del(stw.link_task_for, p)
    /\ do_link(stw, link_task(stw, p).source, p).dir_task_for =
          stw.dir_task_for

\* C18 as stated -- Link reversal cancels: do_unlink at a path with a
\* pending create-link, and do_link at a path with a pending remove-link
\* of the same source, mark the task skip, drop it from the link index and
\* append nothing, so that the Executor does nothing at the path.
C18_LinkReversal ==
    Insertable
    => /\ \A p \in PendingLinks("create") : UnlinkCancels(p)
       /\ \A p \in PendingLinks("remove") : LinkCancels(p)

\* C18 -- Link reversal cancels, where no directory is planned at the
\* path: do_unlink at a path with a pending create-link, and do_link at a
\* path with a pending remove-link of the same source and no pending
\* create-dir, mark the task skip, drop it from the link index and append
\* nothing, so that the Executor does nothing for that task.
C18_LinkReversalWithoutNewDir ==
    Insertable
    => /\ \A p \in PendingLinks("create") : UnlinkCancels(p)
       /\ \A p \in PendingLinks("remove") \ PendingDirs("create") :
              LinkCancels(p)

\* removal planning of -R has left a remove-link pending, which the
\* install pass is about to reverse
C18_Witness ==
    /\ phase = "plan_stow"
    /\ stw.err = NoErr
    /\ Len(opts.rest) = 2 /\ opts.rest[1] = "-R"
    /\ \E p \in PendingLinks("remove") \ PendingDirs("create") :
           /\ LinkCancels(p)
           /\ NotSkipped(do_link(stw, link_task(stw, p).source, p).tasks)
                 = <<>>

\* C19 -- mkdir cancels a pending rmdir: do_mkdir at a path with a
\* pending remove-dir marks that task skip, drops it from the directory
\* index and appends nothing, so that the Executor performs neither rmdir
\* nor mkdir at the path.
C19_MkdirCancels ==
    Insertable
    => \A p \in PendingDirs("remove") :
           (p \in DOMAIN stw.link_task_for
                => link_task(stw, p).action = "remove")
           => /\ Cancelled(stw, do_mkdir(stw, p), stw.dir_task_for[p])
              /\ do_mkdir(stw, p).dir_task_for = Del(stw.dir_task_for, p)

\* C20 -- rmdir cancels a pending mkdir: do_rmdir at a path with a
\* pending create-dir and no link task marks that task skip, drops it from
\* the directory index, appends nothing and returns normally.
C20_RmdirCancels ==
    Insertable
    => \A p \in PendingDirs("create") \ DOMAIN stw.link_task_for :
           /\ Cancelled(stw, do_rmdir(stw, p), stw.dir_task_for[p])
           /\ do_rmdir(stw, p).dir_task_for = Del(stw.dir_task_for, p)

\* From planner state s the guarded insert that gave r has aborted:
\* it raised, appended nothing and left both indexes as they were
Aborted(s, r) ==
    /\ r.err # NoErr
    /\ r.tasks = s.tasks
    /\ r.link_task_for = s.link_task_for
    /\ r.dir_task_for = s.dir_task_for

\* A link source no package of the worlds supplies
OtherSource == <<"stow", "other">>

\* The four clashes that abort whatever else is pending: do_link on a
\* pending create-dir, do_link on a pending create-link of another
\* source, do_mkdir on a pending create-link, do_rmdir on any pending link
ClashesAbort ==
    /\ \A p \in PendingDirs("create") :
           Aborted(stw, do_link(stw, OtherSource, p))
    /\ \A p \in PendingLinks("create") :
           /\ Aborted(stw, do_link(stw, OtherSource, p))
           /\ Aborted(stw, do_mkdir(stw, p))
    /\ \A p \in DOMAIN stw.link_task_for :
           Aborted(stw, do_rmdir(stw, p))

\* C21 as stated -- Contradictory pending tasks are a fatal internal
\* error: do_link on a pending create-dir or on a pending create-link of
\* another source, do_mkdir on a pending create-link, do_unlink on a
\* pending create-dir and do_rmdir on any pending link task each raise,
\* append no task and leave the task index unchanged.
C21_ClashesAreFatal ==
    Insertable
    => /\ ClashesAbort
       /\ \A p \in PendingDirs("create") :
              Aborted(stw, do_unlink(fs, stw, p))

\* C21 -- Contradictory pending tasks are a fatal internal error, the
\* remove-link clash only where no link task is pending: do_link on a
\* pending create-dir or on a pending create-link of another source,
\* do_mkdir on a pending create-link, do_unlink on a pending create-dir
\* with no pending link task, and do_rmdir on any pending link task each
\* raise, append no task and leave the task index unchanged; do_unlink on
\* a pending create-dir whose path has a pending remove-link returns
\* normally, and changes nothing either.
C21_ClashesAreFatalButDuplicateUnlink ==
    Insertable
    => /\ ClashesAbort
       /\ \A p \in PendingDirs("create") \ DOMAIN stw.link_task_for :
              Aborted(stw, do_unlink(fs, stw, p))
       /\ \A p \in PendingDirs("create") \cap PendingLinks("remove") :
              do_unlink(fs, stw, p) = stw

\* a plan holds a create-dir with the remove-link of the unfolded link, a
\* create-dir alone and a create-link, and each clash on them aborts
C21_Witness ==
    /\ Insertable
    /\ PendingDirs("create") \cap PendingLinks("remove") # {}
    /\ PendingLinks("create") # {}
    /\ \E p \in PendingDirs("create") :
           do_link(stw, OtherSource, p).err = NameError("internal_error")
    /\ \E p \in PendingLinks("create") :
           do_mkdir(stw, p).err = NameError("internal_error")

\* The messages logged in planner state s under (action, package)
Logged(s, action, package) ==
    IF package \in DOMAIN s.conflicts[action]
    THEN s.conflicts[action][package] ELSE <<>>

\* C22 -- Conflict recording.  A conflict detected for (direction,
\* package), the first for that package included, is appended to the log
\* under that key and counted before RuntimeError is raised with its
\* message, and every other entry of the log is left as it was.
C22_ConflictRecorded ==
    Insertable
    => \A action \in {"stow", "unstow"} : \A P \in cfg.pkgs :
           /\ conflict(stw, action, P, "message", <<P>>).err
                 = RuntimeError("message", <<P>>)
           /\ Logged(conflict(stw, action, P, "message", <<P>>), action, P)
                 = Append(Logged(stw, action, P),
                          Exc("conflict", "message", <<P>>))
           /\ conflict(stw, action, P, "message", <<P>>).conflict_count
                 = stw.conflict_count + 1
           /\ \A a \in {"stow", "unstow"} : \A Q \in cfg.pkgs :
                  <<a, Q>> # <<action, P>>
                  => Logged(conflict(stw, action, P, "message", <<P>>), a, Q)
                        = Logged(stw, a, Q)

\* The run installs pkg where the target's x is a link into a package
\* the stow directory no longer has: a broken link that stow owns
BrokenLinkInTheWay ==
    /\ cfg.target \o <<"x">> \in DOMAIN fs0
    /\ fs0[cfg.target \o <<"x">>] = Link(<<"stow", "old", "x">>)
    /\ cfg.dir \o <<"old">> \notin DOMAIN fs0
    /\ opts.rest = <<"-S", "pkg">>
    /\ ~Planning

\* C23 as stated -- Install over a broken link is a conflict: the run
\* ends with the conflict raised for (stow, pkg) and nothing planned for
\* the target.
C23_BrokenLinkConflict ==
    BrokenLinkInTheWay
    => /\ phase = "plan_raised"
       /\ stw.err.type \in {"RuntimeError", "KeyError"}
       /\ stw.tasks = <<>>

\* C23 -- Install over a broken link that stow owns replaces the link:
\* stow_node plans the remove-link of the target and then the create-link
\* to the package's node, records and raises no conflict, and the run
\* leaves the good link in place.
C23_BrokenLinkReplaced ==
    BrokenLinkInTheWay
    => /\ Planned
       /\ stw.conflicts = [stow |-> EmptyMap, unstow |-> EmptyMap]
       /\ phase = "process_tasks"
          => stw.tasks =
                <<TaskLink("remove", <<"stow", "old", "x">>, <<"x">>),
                  TaskLink("create", <<"stow", "pkg", "x">>, <<"x">>)>>
       /\ phase = "done"
          => /\ applied =
                   <<TaskLink("remove", <<"stow", "old", "x">>, <<"x">>),
                     TaskLink("create", <<"stow", "pkg", "x">>, <<"x">>)>>
             /\ fs[cfg.target \o <<"x">>] = Link(<<"stow", "pkg", "x">>)

\* the broken link has been replaced
C23_Witness ==
    /\ BrokenLinkInTheWay
    /\ phase = "done"
    /\ fs[cfg.target \o <<"x">>] = Link(<<"stow", "pkg", "x">>)

\* The tree is at rest: no run is under way
AtRest == phase \in {"idle", "done"}

\* A planner that has planned nothing yet, over the tree as it is
Fresh == NewStow(fs, cfg, [ignores |-> {}, adopt |-> FALSE])

\* The names of the nodes at the top of package P
TopNodes(P) == {Last(l) : l \in Children(fs, cfg.dir \o <<P>>)}

\* The target of tree f has at n a link that leads to an existing node of
\* a package of the stow directory, and P supplies a file or directory n
OwnedLinkIn(f, P, n) ==
    /\ cfg.target \o <<n>> \in DOMAIN f
    /\ f[cfg.target \o <<n>>].kind = "link"
    /\ ~isabs(f[cfg.target \o <<n>>].src)
    /\ cfg.dir \o <<P, n>> \in DOMAIN f
    /\ f[cfg.dir \o <<P, n>>].kind \in {"file", "dir"}
    /\ IsPrefix(cfg.dir, LeadsTo(f, cfg.target \o <<n>>))
    /\ Len(LeadsTo(f, cfg.target \o <<n>>)) > Len(cfg.dir) + 1
    /\ LeadsTo(f, cfg.target \o <<n>>) \in DOMAIN f

OwnedLinkAt(P, n) == OwnedLinkIn(fs, P, n)

\* What stow_node plans for node n of P from nothing planned
StowNodeAt(P, n) ==
    stow_node(fs, Fresh, Fresh.stow_path, P, <<n>>, Fresh.stow_path \o <<P, n>>)

\* C24 -- Install outcome priority.  For a target that is a stow-owned
\* link to an existing node, stow_node does nothing when the link has this
\* exact source (Skip); otherwise, no defer or override rule being set, it
\* unfolds when both sources are directories, planning the remove-link and
\* the create-dir of the target first; otherwise it raises the conflict,
\* recorded under the package, and plans nothing.
C24_InstallOutcome ==
    AtRest
    => \A P \in cfg.pkgs : \A n \in TopNodes(P) :
           OwnedLinkAt(P, n)
           => IF fs[cfg.target \o <<n>>].src = Fresh.stow_path \o <<P, n>>
              THEN StowNodeAt(P, n) = Fresh
              ELSE IF /\ fs[cfg.dir \o <<P, n>>].kind = "dir"
                      /\ fs[LeadsTo(fs, cfg.target \o <<n>>)].kind = "dir"
              THEN /\ StowNodeAt(P, n).err = NoErr
                   /\ Len(StowNodeAt(P, n).tasks) >= 2
                   /\ StowNodeAt(P, n).tasks[1] =
                         TaskLink("remove", fs[cfg.target \o <<n>>].src, <<n>>)
                   /\ StowNodeAt(P, n).tasks[2] = TaskDir("create", <<n>>)
              ELSE /\ StowNodeAt(P, n).err.type = "RuntimeError"
                   /\ P \in DOMAIN StowNodeAt(P, n).conflicts.stow
                   /\ StowNodeAt(P, n).tasks = <<>>

\* The nodes of pkg that are symlinks with an absolute destination, as
\* paths relative to the package
AbsSources(f) ==
    {rel \in {<<"x">>, <<"sub", "x">>} :
        /\ cfg.dir \o <<"pkg">> \o rel \in DOMAIN f
        /\ f[cfg.dir \o <<"pkg">> \o rel].kind = "link"
        /\ isabs(f[cfg.dir \o <<"pkg">> \o rel].src)}

\* C25 -- Reject absolute-symlink sources.  Installing a package with a
\* node, at any depth, that is a symlink with an absolute destination ends
\* planning with the conflict raised and recorded for the package, and no
\* link is planned or made for the node.
C25_AbsoluteSourceRejected ==
    (AbsSources(fs0) # {} /\ opts.rest = <<"-S", "pkg">> /\ Ended)
    => /\ phase = "plan_raised"
       /\ stw.err.type = "RuntimeError"
       /\ "pkg" \in DOMAIN stw.conflicts.stow
       /\ \A rel \in AbsSources(fs0) :
              /\ \A i \in 1..Len(stw.tasks) : stw.tasks[i].path # rel
              /\ cfg.target \o rel \notin DOMAIN fs

\* Candidate paths, relative to the target directory, that a link at the
\* top of the target may resolve to
Candidates ==
    {<<"stow", "pkg", "sub", "tool">>, <<"stow", "pkg", "sub">>,
     <<"stow", "pkg", "x">>, <<"stow", "pkg">>, <<"stow">>,
     <<"..", "s", "pkg", "x">>, <<"..", "s", "pkg">>, <<"..", "s">>,
     <<"..">>, <<"y">>}

\* The directory at location loc holds a marker file
HasMarker(loc) ==
    /\ loc \in DOMAIN fs
    /\ fs[loc].kind = "dir"
    /\ loc \o <<".stow">> \in DOMAIN fs \/ loc \o <<".nonstow">> \in DOMAIN fs

\* The lengths of the prefixes of candidate c that are marked directories
MarkedAt(c) ==
    {i \in 1..Len(c) : HasMarker(normpath(cfg.target \o SubSeq(c, 1, i)))}

\* What find_stowed_path gives for a link at the top of the target that
\* resolves to candidate c
OwnerOf(c) == find_stowed_path(fs, stw, <<"x">>, c)

\* C26 as stated -- Marker precedence: whenever a prefix of the candidate
\* is a marked directory, find_stowed_path returns the candidate, the
\* shallowest marked prefix and the path component after it.
C26_MarkerPrecedence ==
    \A c \in Candidates :
        MarkedAt(c) # {}
        => \E i \in MarkedAt(c) :
               /\ \A j \in MarkedAt(c) : i <= j
               /\ i < Len(c)
               /\ OwnerOf(c) = Owned(c, SubSeq(c, 1, i), c[i + 1])

\* C26 -- Marker precedence, the marked prefix a proper one: when the
\* shallowest marked prefix of the candidate is a proper prefix,
\* find_stowed_path returns the candidate, that prefix and the path
\* component after it, whatever is marked deeper and whatever the
\* configured stow path is; when it is the whole candidate, there is no
\* next component and find_stowed_path raises.
C26_MarkerPrecedenceOfProperPrefix ==
    \A c \in Candidates :
        MarkedAt(c) # {}
        => \E i \in MarkedAt(c) :
               /\ \A j \in MarkedAt(c) : i <= j
               /\ i < Len(c) => OwnerOf(c) = Owned(c, SubSeq(c, 1, i), c[i + 1])
               /\ i = Len(c) => OwnerOf(c).err # NoErr

\* removing pkg has passed over a link into the marked directory inside
\* the marked stow directory, whose owner is the outer one's package
C26_Witness ==
    /\ phase = "done"
    /\ opts.rest = <<"-D", "pkg">>
    /\ cfg.target \o <<"x">> \in DOMAIN fs
    /\ fs[cfg.target \o <<"x">>] = Link(<<"stow", "pkg", "sub", "tool">>)
    /\ MarkedAt(<<"stow", "pkg", "sub", "tool">>) = {1, 3}
    /\ stw.stow_path = <<"..", "s">>
    /\ OwnerOf(<<"stow", "pkg", "sub", "tool">>)
          = Owned(<<"stow", "pkg", "sub", "tool">>, <<"stow">>, "pkg")
    /\ applied = <<>>

\* C27 -- Ownership fallback.  When no prefix of the candidate is marked,
\* find_stowed_path returns the all-empty triple for a candidate that is
\* not a strict descendant of the configured stow path, a proper prefix of
\* the stow path and the stow path itself included, and otherwise the
\* candidate, the stow path and the component after the stow path; it
\* never raises.
C27_OwnershipFallback ==
    \A c \in Candidates :
        MarkedAt(c) = {}
        => OwnerOf(c) =
              IF IsPrefix(stw.stow_path, c) /\ Len(c) > Len(stw.stow_path)
              THEN Owned(c, stw.stow_path, c[Len(stw.stow_path) + 1])
              ELSE Unowned

\* The paths one step beneath path p that have no pending task of their own
Beneath(p) ==
    {p \o <<n>> : n \in {"a", "b", "f", "tool", "x"}}
        \ (DOMAIN stw.link_task_for \cup DOMAIN stw.dir_task_for)

\* C28 -- Virtual view under a removed link.  Once a remove-link task is
\* pending for a link that is on disk, is_a_node, is_a_link and is_a_dir
\* are false for every path beneath the link that has no pending task of
\* its own, whatever the filesystem resolves through the link.
C28_NothingUnderRemovedLink ==
    Insertable
    => \A p \in PendingLinks("remove") :
           islink(fs, stw.target, p)
           => \A q \in Beneath(p) :
                  /\ ~is_a_node(fs, stw, q)
                  /\ ~is_a_link(fs, stw, q)
                  /\ ~is_a_dir(fs, stw, q)

\* C29 -- Virtual view of a planned directory.  A path with a pending
\* create-dir task and no pending create-link is a directory to is_a_dir,
\* as it is a node to is_a_node; so installing pkg1, pkg2 and pkg3, which
\* all hold the directory shared, in one run on an empty target goes
\* through with the plan create-dir shared and one create-link for each
\* package's child.
C29_PlannedDirIsADir ==
    /\ Insertable
       => \A p \in PendingDirs("create") \ PendingLinks("create") :
              /\ is_a_node(fs, stw, p)
              /\ is_a_dir(fs, stw, p)
    /\ (/\ "pkg3" \in cfg.pkgs
        /\ EmptyTarget(fs0)
        /\ opts.rest = <<"-S", "pkg1", "-S", "pkg2", "-S", "pkg3">>
        /\ Ended)
       => /\ phase = "done"
          /\ applied =
                <<TaskDir("create", <<"shared">>),
                  TaskLink("create", <<"..", "stow", "pkg1", "shared", "a">>,
                           <<"shared", "a">>),
                  TaskLink("create", <<"..", "stow", "pkg2", "shared", "b">>,
                           <<"shared", "b">>),
                  TaskLink("create", <<"..", "stow", "pkg3", "shared", "f">>,
                           <<"shared", "f">>)>>

\* In tree f the target has at n, a node of P, a link that stow owns and
\* that leads to an existing node other than P's
OthersLinkIn(f, P, n) ==
    /\ OwnedLinkIn(f, P, n)
    /\ LeadsTo(f, cfg.target \o <<n>>) # cfg.dir \o <<P, n>>

\* C30 -- Removal ignores other packages' links.  Where the target has,
\* at a node of P, a link to an existing node of another package,
\* unstow_node plans nothing and raises nothing, and a run that removes P
\* goes through, with no task at the link and the link as it was.
C30_OthersLinksIgnored ==
    /\ AtRest
       => \A P \in cfg.pkgs : \A n \in TopNodes(P) :
              OthersLinkIn(fs, P, n)
              => unstow_node(fs, Fresh, Fresh.stow_path, P, <<n>>) = Fresh
    /\ \A P \in cfg.pkgs : \A n \in TopNodes(P) :
           (OthersLinkIn(fs0, P, n) /\ opts.rest = <<"-D", P>> /\ ~Planning)
           => /\ Planned
              /\ stw.conflicts = [stow |-> EmptyMap, unstow |-> EmptyMap]
              /\ \A i \in 1..Len(stw.tasks) : stw.tasks[i].path # <<n>>
              /\ fs[cfg.target \o <<n>>] = fs0[cfg.target \o <<n>>]

\* removing a package whose node another package has installed has left
\* that link alone
C30_Witness ==
    /\ phase = "done"
    /\ \E P \in cfg.pkgs : \E n \in TopNodes(P) :
           /\ OthersLinkIn(fs0, P, n)
           /\ opts.rest = <<"-D", P>>
           /\ fs[cfg.target \o <<n>>] = fs0[cfg.target \o <<n>>]
           /\ fs[cfg.target \o <<n>>].kind = "link"
    /\ applied = <<>>

\* The index of planner state s is sound: each entry refers to a task of
\* the list that is active, has the indexed path and the index's kind; so
\* no skipped task is referred to
IndexSound(s) ==
    /\ \A p \in DOMAIN s.link_task_for :
           /\ s.link_task_for[p] \in 1..Len(s.tasks)
           /\ s.tasks[s.link_task_for[p]].action \in {"create", "remove"}
           /\ s.tasks[s.link_task_for[p]].path = p
           /\ s.tasks[s.link_task_for[p]].type = "link"
    /\ \A p \in DOMAIN s.dir_task_for :
           /\ s.dir_task_for[p] \in 1..Len(s.tasks)
           /\ s.tasks[s.dir_task_for[p]].action \in {"create", "remove"}
           /\ s.tasks[s.dir_task_for[p]].path = p
           /\ s.tasks[s.dir_task_for[p]].type = "dir"
    /\ \A i \in 1..Len(s.tasks) :
           s.tasks[i].action = "skip"
           => /\ \A p \in DOMAIN s.link_task_for : s.link_task_for[p] # i
              /\ \A p \in DOMAIN s.dir_task_for : s.dir_task_for[p] # i

\* From planner state s to r the list has only grown, and every task
\* that was skipped is the same skipped task
SkipsKept(s, r) ==
    /\ Len(r.tasks) >= Len(s.tasks)
    /\ \A i \in 1..Len(s.tasks) :
           s.tasks[i].action = "skip" => r.tasks[i] = s.tasks[i]

\* r comes from the planner state by one more guarded insert
Sound(r) == IndexSound(r) /\ SkipsKept(stw, r)

\* The paths and sources the guarded inserts are tried with
TriedPaths ==
    DOMAIN stw.link_task_for \cup DOMAIN stw.dir_task_for
        \cup {stw.tasks[i].path : i \in 1..Len(stw.tasks)}
        \cup {<<"x">>, <<"shared">>, <<"shared", "a">>}

TriedSources ==
    {OtherSource}
        \cup {stw.tasks[i].source :
                 i \in {j \in 1..Len(stw.tasks) : stw.tasks[j].type = "link"}}

\* Every guarded insert, at every path tried, keeps the index sound
InsertsKeepIndex ==
    \A p \in TriedPaths :
        /\ \A src \in TriedSources : Sound(do_link(stw, src, p))
        /\ Sound(do_unlink(fs, stw, p))
        /\ Sound(do_mkdir(stw, p))
        /\ Sound(do_rmdir(stw, p))
        /\ Sound(do_mv(stw, p, OtherSource))

\* The plan has not been handed to the Executor's strip
Unstripped == phase \notin {"done", "exec_raised"}

\* C31 -- Task Index invariant.  Through planning, every task the link
\* index or the directory index refers to is in the task list, is a create
\* or remove task, and has the indexed path and the index's kind; no
\* skipped task is referred to by either index; each planning call and
\* each further guarded insert keeps this and never changes a skipped
\* task.
C31_TaskIndex ==
    [][/\ Unstripped => IndexSound(stw)
       /\ Unstripped' => IndexSound(stw')
       /\ Insertable => InsertsKeepIndex
       /\ Planning => SkipsKept(stw, stw')]_vars

\* an unfold within the run has cancelled a create-link, and links and a
\* directory are pending
C31_Witness ==
    /\ phase = "process_tasks"
    /\ \E i \in 1..Len(stw.tasks) : stw.tasks[i].action = "skip"
    /\ PendingLinks("create") # {}
    /\ PendingDirs("create") # {}
    /\ IndexSound(stw)
    /\ InsertsKeepIndex

====
